---- MODULE Spec2Model ----
(***************************************************************************)
(* A model of the request-parameter binding engine of web_request_readers: *)
(* UnmarshalParams and its helpers (getNextOption, NameAndArgs,            *)
(* unmarshalToValue, setValue, setInt, setFloat) and the MissingFields     *)
(* error type.                                                             *)
(*                                                                         *)
(* Go strings are modelled as sequences of byte values, so that the        *)
(* comma search of getNextOption, strings.ToLower, unicode.IsUpper,        *)
(* strings.HasPrefix and strconv.ParseInt are computed, not assumed.       *)
(***************************************************************************)
EXTENDS Integers, Sequences, FiniteSets, TLC

(***************************************************************************)
(* Strings                                                                 *)
(***************************************************************************)

\* The ASCII characters the model's strings use, with their byte values.
Punct == << <<"+", 43>>, <<",", 44>>, <<"-", 45>>, <<".", 46>>, <<"_", 95>> >>
Digits == <<"0", "1", "2", "3", "4", "5", "6", "7", "8", "9">>
Upper ==
    <<"A", "B", "C", "D", "E", "F", "G", "H", "I", "J", "K", "L", "M",
      "N", "O", "P", "Q", "R", "S", "T", "U", "V", "W", "X", "Y", "Z">>
Lower ==
    <<"a", "b", "c", "d", "e", "f", "g", "h", "i", "j", "k", "l", "m",
      "n", "o", "p", "q", "r", "s", "t", "u", "v", "w", "x", "y", "z">>

\* The byte value of a one-character string.
Ord(c) ==
    IF \E i \in DOMAIN Digits : Digits[i] = c
    THEN 47 + (CHOOSE i \in DOMAIN Digits : Digits[i] = c)
    ELSE IF \E i \in DOMAIN Upper : Upper[i] = c
    THEN 64 + (CHOOSE i \in DOMAIN Upper : Upper[i] = c)
    ELSE IF \E i \in DOMAIN Lower : Lower[i] = c
    THEN 96 + (CHOOSE i \in DOMAIN Lower : Lower[i] = c)
    ELSE (CHOOSE p \in {Punct[i] : i \in DOMAIN Punct} : p[1] = c)[2]

\* A Go string literal, given as a tuple of one-character strings.
B(chars) == [i \in DOMAIN chars |-> Ord(chars[i])]

Comma == Ord(",")
EmptyStr == << >>
Dash == B(<<"-">>)
OptionalStr == B(<<"o", "p", "t", "i", "o", "n", "a", "l">>)
RequiredStr == B(<<"r", "e", "q", "u", "i", "r", "e", "d">>)

\* s[from:] of Go (from is 0-based).
SliceFrom(s, from) == SubSeq(s, from + 1, Len(s))

\* s[:to] of Go (to is 0-based, exclusive).
SliceTo(s, to) == SubSeq(s, 1, to)

\* strings.IndexRune(s, r): 0-based index of the first r, -1 if there is none.
IndexRune(s, r) ==
    IF \E i \in DOMAIN s : s[i] = r
    THEN (CHOOSE i \in DOMAIN s : s[i] = r /\ \A j \in 1..(i - 1) : s[j] # r) - 1
    ELSE -1

\* strings.HasPrefix(s, prefix).
HasPrefix(s, prefix) == Len(s) >= Len(prefix) /\ SliceTo(s, Len(prefix)) = prefix

\* unicode.IsUpper on an ASCII byte.
IsUpper(b) == b >= Ord("A") /\ b <= Ord("Z")

\* strings.ToLower on an ASCII string.
ToLower(s) == [i \in DOMAIN s |-> IF IsUpper(s[i]) THEN s[i] + (Ord("a") - Ord("A")) ELSE s[i]]

(***************************************************************************)
(* Tag parsing: getNextOption and NameAndArgs                              *)
(***************************************************************************)

RECURSIVE StripCommas(_)
\* the loop of getNextOption that drops the leading commas of remaining
StripCommas(remaining) ==
    IF Len(remaining) > 0 /\ remaining[1] = Comma
    THEN StripCommas(SliceFrom(remaining, 1))
    ELSE remaining

\* getNextOption after the search for the comma.
splitAt(remainingTag, commaIdx) ==
    IF commaIdx = -1
    THEN <<remainingTag, EmptyStr>>
    ELSE <<SliceTo(remainingTag, commaIdx), StripCommas(SliceFrom(remainingTag, commaIdx))>>

\* getNextOption(remainingTag): <<nextOption, remaining>>
getNextOption(remainingTag) == splitAt(remainingTag, IndexRune(remainingTag, Comma))

RECURSIVE TagArgs(_)
\* the loop of NameAndArgs that collects the options after the name
TagArgs(remaining) ==
    IF remaining = EmptyStr
    THEN << >>
    ELSE <<getNextOption(remaining)[1]>> \o TagArgs(getNextOption(remaining)[2])

\* A variant of the end of NameAndArgs that looks at the db tag before the
\* response tag.
resolveNameDbFirst(fieldType, name, args) ==
    IF name # EmptyStr THEN <<name, args>>
    ELSE IF fieldType.tag.db # EmptyStr /\ fieldType.tag.db # Dash
    THEN <<fieldType.tag.db, args>>
    ELSE IF fieldType.tag.response # EmptyStr THEN <<fieldType.tag.response, args>>
    ELSE <<ToLower(fieldType.name), args>>

\* The end of NameAndArgs, name being the first option of the request tag
\* and args the others: the first non-empty of the name, the response tag,
\* the db tag unless it is "-", and the field's name in lower case.
resolveName(fieldType, name, args) ==
    IF name # EmptyStr THEN <<name, args>>
    ELSE IF fieldType.tag.response # EmptyStr THEN <<fieldType.tag.response, args>>
    ELSE IF fieldType.tag.db # EmptyStr /\ fieldType.tag.db # Dash
    THEN <<fieldType.tag.db, args>>
    ELSE <<ToLower(fieldType.name), args>>

\* NameAndArgs(fieldType): <<name, args>>.  fieldType.tag.X is Tag.Get("X"),
\* the empty string when the tag has no such key.
NameAndArgs(fieldType) ==
    resolveName(fieldType, getNextOption(fieldType.tag.request)[1],
                TagArgs(getNextOption(fieldType.tag.request)[2]))

\* A variant of the loop over args in which the options decide nothing.
RequiredFromDefault(args, default) == default

RECURSIVE RequiredFrom(_, _)
\* the loop of unmarshalToValue over args: the first "optional" or "required"
\* decides, otherwise the default stands
RequiredFrom(args, default) ==
    IF args = << >> THEN default
    ELSE IF Head(args) = OptionalStr THEN FALSE
    ELSE IF Head(args) = RequiredStr THEN TRUE
    ELSE RequiredFrom(Tail(args), default)

(***************************************************************************)
(* Values                                                                  *)
(*                                                                         *)
(* An untyped parameter value (interface{}) is a record [k, i, s, b]:      *)
(*   k = "nil"     the nil interface (JSON null)                           *)
(*   k = "int"     a Go int, i its value                                   *)
(*   k = "float"   a float64 with one fractional bit, i twice its value    *)
(*   k = "string"  a string, s its bytes                                   *)
(*   k = "bool"    a bool, b its value                                     *)
(*   k = "slice"   a []string of several form values, i its identity       *)
(***************************************************************************)

VNil == [k |-> "nil", i |-> 0, s |-> EmptyStr, b |-> FALSE]
VInt(n) == [k |-> "int", i |-> n, s |-> EmptyStr, b |-> FALSE]
VFloat(halves) == [k |-> "float", i |-> halves, s |-> EmptyStr, b |-> FALSE]
VStr(str) == [k |-> "string", i |-> 0, s |-> str, b |-> FALSE]
VBool(bv) == [k |-> "bool", i |-> 0, s |-> EmptyStr, b |-> bv]
VSlice(id) == [k |-> "slice", i |-> id, s |-> EmptyStr, b |-> FALSE]

(***************************************************************************)
(* Field types                                                             *)
(*                                                                         *)
(* A field's declared type is a record:                                    *)
(*   ptr      the field is a pointer to the base type                      *)
(*   kind     reflect.Kind of the base type: "int", "int8", "float",       *)
(*            "string", "bool" or "struct"                                 *)
(*   name     Type().Name() of the base type                               *)
(*   members  for a struct, its member names with their kinds              *)
(*   pre, recv, post, dflt                                                 *)
(*            the PreReceiver, RequestValueReceiver, PostReceiver and      *)
(*            DefaultValueCreator methods of the base type: has (the       *)
(*            method is declared), onPtr (on the pointer receiver), err    *)
(*            (the method returns an error when called)                    *)
(*   dfltVal  what DefaultValue() returns                                  *)
(*                                                                         *)
(* A field's storage is a cell [ptr, i, s, b, valid, got, raw]: ptr is     *)
(* "na" for a non-pointer, "nil" or "set" for a pointer; i, s, b hold an   *)
(* integer (or twice a float), a string, a bool; valid is the Valid member *)
(* of a nullable struct; got and raw record what a Receive method stored.  *)
(***************************************************************************)

NoMethod == [has |-> FALSE, onPtr |-> FALSE, err |-> FALSE]
Method(onPtr, err) == [has |-> TRUE, onPtr |-> onPtr, err |-> err]

ZeroCell(t) ==
    [ptr |-> IF t.ptr THEN "nil" ELSE "na", i |-> 0, s |-> EmptyStr, b |-> FALSE,
     valid |-> FALSE, got |-> FALSE, raw |-> VNil]

\* target.Interface().(I): the method set of the field's own type.
ImplementsValue(t, m) == IF t.ptr THEN m.has ELSE m.has /\ ~m.onPtr

\* target.Addr().Interface().(I): the method set of a pointer to the field.
ImplementsAddr(t, m) == IF t.ptr THEN FALSE ELSE m.has

(***************************************************************************)
(* strconv.ParseInt(s, 10, 64) and strconv.ParseFloat(s, 64)               *)
(***************************************************************************)

IsDigit(b) == b >= Ord("0") /\ b <= Ord("9")

RECURSIVE DigitsValue(_, _)
\* the value of a string of decimal digits, most significant first
DigitsValue(s, acc) ==
    IF s = EmptyStr THEN acc
    ELSE DigitsValue(Tail(s), acc * 10 + (Head(s) - Ord("0")))

RECURSIVE StripZeros(_)
\* a digit string without its leading zeros
StripZeros(s) == IF s # EmptyStr /\ Head(s) = Ord("0") THEN StripZeros(Tail(s)) ELSE s

RECURSIVE DigitsLess(_, _)
\* a < b for two digit strings of the same length
DigitsLess(a, b) ==
    IF a = EmptyStr THEN FALSE
    ELSE IF Head(a) # Head(b) THEN Head(a) < Head(b)
    ELSE DigitsLess(Tail(a), Tail(b))

\* The decimal digits of 2^63, the magnitude of the least int64; the
\* greatest int64 is one less.
Int64Limit ==
    B(<<"9", "2", "2", "3", "3", "7", "2", "0", "3", "6", "8", "5", "4", "7", "7", "5",
        "8", "0", "8">>)

\* The magnitude written by the digit string is at least 2^63.
AtLeastLimit(digits) ==
    LET d == StripZeros(digits)
    IN  Len(d) > Len(Int64Limit) \/ (Len(d) = Len(Int64Limit) /\ ~DigitsLess(d, Int64Limit))

\* The sign and the rest of a numeric string.
HasSign(s) == Len(s) > 0 /\ s[1] \in {Ord("+"), Ord("-")}
IsNegative(s) == Len(s) > 0 /\ s[1] = Ord("-")
Unsigned(s) == IF HasSign(s) THEN Tail(s) ELSE s

\* ParseInt on the digits after the sign.
parseIntBody(body, neg) ==
    IF body = EmptyStr \/ \E j \in DOMAIN body : ~IsDigit(body[j])
    THEN [ok |-> FALSE, v |-> 0]
    ELSE IF AtLeastLimit(body) /\ ~(neg /\ StripZeros(body) = Int64Limit)
    THEN [ok |-> FALSE, v |-> 0]
    ELSE [ok |-> TRUE, v |-> IF neg THEN -DigitsValue(body, 0) ELSE DigitsValue(body, 0)]

\* strconv.ParseInt(s, 10, 64): [ok, v]; a syntax error for anything but an
\* optional sign and decimal digits, a range error outside int64.
ParseInt(s) == parseIntBody(Unsigned(s), IsNegative(s))

\* ParseFloat on the digits before and after the point.
parseFloatParts(whole, frac, neg) ==
    IF \/ whole = EmptyStr /\ frac = EmptyStr
       \/ \E j \in DOMAIN whole : ~IsDigit(whole[j])
       \/ \E j \in DOMAIN frac : ~IsDigit(frac[j])
    THEN [ok |-> FALSE, v |-> 0]
    ELSE [ok |-> TRUE,
          v |-> (IF neg THEN -1 ELSE 1) *
                (2 * DigitsValue(whole, 0)
                 + (IF frac # EmptyStr /\ frac[1] >= Ord("5") THEN 1 ELSE 0))]

\* ParseFloat on the text after the sign, the point at 0-based index dot (-1
\* when there is none).
parseFloatBody(body, dot, neg) ==
    parseFloatParts(IF dot = -1 THEN body ELSE SliceTo(body, dot),
                    IF dot = -1 THEN EmptyStr ELSE SliceFrom(body, dot + 1), neg)

\* strconv.ParseFloat(s, 64) on plain decimal notation ([sign] digits
\* [. digits]), rounded toward zero to the one fractional bit the model's
\* floats keep: [ok, v], v twice the value.
ParseFloat(s) == parseFloatBody(Unsigned(s), IndexRune(Unsigned(s), Ord(".")), IsNegative(s))

(***************************************************************************)
(* reflect.Value.SetInt, the numeric conversions of Go, string(rune)       *)
(***************************************************************************)

\* x wrapped to a signed integer of the given width, as a Go conversion does.
WrapInt(x, bits) == ((x + 2 ^ (bits - 1)) % (2 ^ bits)) - 2 ^ (bits - 1)

\* reflect.Value.SetInt(x) on a field of the given kind: the stored value.
\* An int8 field keeps the low 8 bits; an int (64-bit) field keeps every
\* int64.
StoredInt(kind, x) == IF kind = "int8" THEN WrapInt(x, 8) ELSE x

\* int64(f) for a float64 f given as twice its value: truncation toward zero.
FloatToInt(halves) == IF halves >= 0 THEN halves \div 2 ELSE -((-halves) \div 2)

\* float64(n) as twice its value.
IntToFloat(n) == 2 * n

\* string(rune(n)): the UTF-8 encoding of the code point n, U+FFFD when n is
\* no valid code point.
RuneString(n) ==
    IF n < 0 \/ n > 1114111 \/ (n >= 55296 /\ n <= 57343) THEN <<239, 191, 189>>
    ELSE IF n < 128 THEN <<n>>
    ELSE IF n < 2048 THEN <<192 + (n \div 64), 128 + (n % 64)>>
    ELSE IF n < 65536
         THEN <<224 + (n \div 4096), 128 + ((n \div 64) % 64), 128 + (n % 64)>>
    ELSE <<240 + (n \div 262144), 128 + ((n \div 4096) % 64),
           128 + ((n \div 64) % 64), 128 + (n % 64)>>

(***************************************************************************)
(* setInt, setFloat, setValue                                              *)
(***************************************************************************)

SqlNullablePrefix == B(<<"N", "u", "l", "l">>)
SqlNotNullField == B(<<"V", "a", "l", "i", "d">>)

\* A variant of the string case in which a string that does not parse
\* leaves zero in the target.
storeParsedOrZero(cell, r, stored, err) ==
    IF ~r.ok THEN [cell |-> [cell EXCEPT !.i = 0], err |-> err]
    ELSE [cell |-> [cell EXCEPT !.i = stored], err |-> "nil"]

\* What setInt and setFloat do with a parsed string r = [ok, v]: the error
\* of the parser, or the value stored.
storeParsed(cell, r, stored, err) ==
    IF ~r.ok THEN [cell |-> cell, err |-> err]
    ELSE [cell |-> [cell EXCEPT !.i = stored], err |-> "nil"]

\* setInt(target, value) on a target of an integer kind: [cell, err].  The
\* type switch has cases for string, the signed integers and the floats; a
\* value of any other type falls through it and nil is returned.
setInt(kind, cell, value) ==
    IF value.k = "string"
    THEN storeParsed(cell, ParseInt(value.s), StoredInt(kind, ParseInt(value.s).v),
                     "parse-int")
    ELSE IF value.k = "int"
    THEN [cell |-> [cell EXCEPT !.i = StoredInt(kind, value.i)], err |-> "nil"]
    ELSE IF value.k = "float"
    THEN [cell |-> [cell EXCEPT !.i = StoredInt(kind, FloatToInt(value.i))], err |-> "nil"]
    ELSE [cell |-> cell, err |-> "nil"]

\* setFloat(target, value) on a float64 target: [cell, err], cell.i twice
\* the stored value.
setFloat(cell, value) ==
    IF value.k = "string"
    THEN storeParsed(cell, ParseFloat(value.s), ParseFloat(value.s).v, "parse-float")
    ELSE IF value.k = "int"
    THEN [cell |-> [cell EXCEPT !.i = IntToFloat(value.i)], err |-> "nil"]
    ELSE IF value.k = "float"
    THEN [cell |-> [cell EXCEPT !.i = value.i], err |-> "nil"]
    ELSE [cell |-> cell, err |-> "nil"]

\* The default case of setValue's switch on a target of the given kind:
\* reflect's ConvertibleTo and Convert for the value types of the model.  A
\* string converts to a string, an int to the string of its code point, a
\* bool to a bool; nothing converts to a struct.
convertDefault(kind, cell, value) ==
    IF kind = "string" /\ value.k = "string"
    THEN [cell |-> [cell EXCEPT !.s = value.s], err |-> "nil"]
    ELSE IF kind = "string" /\ value.k = "int"
    THEN [cell |-> [cell EXCEPT !.s = RuneString(value.i)], err |-> "nil"]
    ELSE IF kind = "bool" /\ value.k = "bool"
    THEN [cell |-> [cell EXCEPT !.b = value.b], err |-> "nil"]
    ELSE [cell |-> cell, err |-> "cannot-convert"]

\* The switch on target.Kind() at the end of setValue.
convertKind(kind, cell, value) ==
    IF kind \in {"int", "int8"} THEN setInt(kind, cell, value)
    ELSE IF kind = "float" THEN setFloat(cell, value)
    ELSE convertDefault(kind, cell, value)

\* typeName := targetTypeName[len(SqlNullablePrefix):]
NullableMember(t) == SliceFrom(t.name, Len(SqlNullablePrefix))

\* The test of setValue for a nullable struct: a struct named Null<T> with
\* members <T> and Valid.
IsNullable(t) ==
    /\ t.kind = "struct"
    /\ HasPrefix(t.name, SqlNullablePrefix)
    /\ NullableMember(t) \in DOMAIN t.members
    /\ SqlNotNullField \in DOMAIN t.members

\* The built-in conversion of setValue, after the hooks: the pointers are
\* followed, a nullable struct gets Valid set to (value != nil) and its member
\* <T> becomes the target, then the switch on the kind.
convertBuiltin(t, cell, value) ==
    convertKind(IF IsNullable(t) THEN t.members[NullableMember(t)] ELSE t.kind,
                IF IsNullable(t) THEN [cell EXCEPT !.valid = (value.k # "nil")] ELSE cell,
                value)

\* Struct fields reached through a pointer to the record are addressable.
CanAddr == TRUE

\* The type assertions of setValue: on target.Interface(), then on
\* target.Addr().Interface().
HasHook(t, m) == ImplementsValue(t, m) \/ (CanAddr /\ ImplementsAddr(t, m))

\* receiver.Receive(value) of the model's types: the raw value is kept, or an
\* error returned.
receive(t, cell, value) ==
    [cell |-> IF t.recv.err THEN cell ELSE [cell EXCEPT !.got = TRUE, !.raw = value],
     err |-> IF t.recv.err THEN "receive" ELSE "nil",
     ev |-> <<"recv">>]

\* The built-in conversion with its entry in the list of calls.
builtin(r) == [cell |-> r.cell, err |-> r.err, ev |-> <<"conv">>]

\* A variant of setValue from "if hasReceive" in which a value the built-in
\* conversion takes without error goes to it, and only the others to Receive.
receiveOrConvertBuiltinFirst(t, cell, value) ==
    IF HasHook(t, t.recv) /\ convertBuiltin(t, cell, value).err # "nil"
    THEN receive(t, cell, value)
    ELSE builtin(convertBuiltin(t, cell, value))

\* setValue from "if hasReceive": Receive when the type has it, else the
\* built-in conversion.
receiveOrConvert(t, cell, value) ==
    IF HasHook(t, t.recv) THEN receive(t, cell, value)
    ELSE builtin(convertBuiltin(t, cell, value))

\* A deferred function that calls PostReceive whatever parseErr is.
deferredPostAlways(t, r) ==
    IF HasHook(t, t.post)
    THEN [cell |-> r.cell, err |-> IF t.post.err THEN "post-receive" ELSE "nil",
          ev |-> r.ev \o <<"post">>]
    ELSE r

\* The deferred function of setValue: PostReceive is called when the type has
\* it and parseErr is nil, and its result becomes parseErr.
deferredPost(t, r) ==
    IF HasHook(t, t.post) /\ r.err = "nil"
    THEN [cell |-> r.cell, err |-> IF t.post.err THEN "post-receive" ELSE "nil",
          ev |-> r.ev \o <<"post">>]
    ELSE r

\* r with the call of PreReceive before its calls.
afterPre(r) == [r EXCEPT !.ev = <<"pre">> \o @]

\* The part of setValue after the null check and the allocation of a nil
\* pointer: PreReceive, whose error ends the call; then Receive or the
\* built-in conversion; then the deferred PostReceive.  [cell, err, ev]; ev
\* lists the calls made: "pre", "recv", "conv", "post".
setPresent(t, cell, value) ==
    IF HasHook(t, t.pre)
    THEN IF t.pre.err
         THEN [cell |-> cell, err |-> "pre-receive", ev |-> <<"pre">>]
         ELSE afterPre(deferredPost(t, receiveOrConvert(t, cell, value)))
    ELSE deferredPost(t, receiveOrConvert(t, cell, value))

\* setValue(target, value): [cell, err, ev].  A nil value is an error for a
\* non-pointer target and resets a pointer target to nil; otherwise a nil
\* pointer target is allocated and the hooks and the conversion run.
setValue(t, cell, value) ==
    IF value.k = "nil"
    THEN IF ~t.ptr
         THEN [cell |-> cell, err |-> "null-non-pointer", ev |-> << >>]
         ELSE [cell |-> IF cell.ptr # "nil" THEN ZeroCell(t) ELSE cell, err |-> "nil",
               ev |-> << >>]
    ELSE setPresent(t, IF t.ptr /\ cell.ptr = "nil"
                       THEN [ZeroCell(t) EXCEPT !.ptr = "set"] ELSE cell, value)

(***************************************************************************)
(* The state                                                               *)
(*                                                                         *)
(* A record type is a sequence of fields [name, anon, tag, type, sub]: an  *)
(* embedded (anonymous) struct field has anon = TRUE and its own fields in *)
(* sub.  A field is identified by its path, the indices leading to it.     *)
(***************************************************************************)

\* The calls of UnmarshalParams that can be in progress.
Procs == {1, 2}

VARIABLES
    DefaultRequired,  \* the package variable DefaultRequired
    record,           \* record[c]: the fields of the struct target points to
    params,           \* params[c]: the objx.Map, a function from keys to values
    target,           \* target[c]: the storage of the struct, a cell per leaf path
    pc,               \* pc[c]: "idle", "start", "loop", "returned", "done", "panic"
    stack,            \* stack[c]: the frames of unmarshalToValue, innermost last
    missingErr,       \* missingErr[c]: MissingFields.Names
    ret,              \* ret[c]: what the outermost unmarshalToValue returned
    result,           \* result[c]: the error UnmarshalParams returned
    log,              \* log[c]: the matches, misses and method calls, in order
    before,           \* before[c]: target[c] as it was when the call was made
    request,          \* the *http.Request of the context ParseBody is given
    bodyLeft,         \* request.Body has not been read to its end yet
    data,             \* ctx.Data(): whether it has the key "params", and its value
    reads,            \* how many times the request body was read or parsed
    out               \* what each call of ParseBody and ParseParams returned, in order

vars ==
    <<DefaultRequired, record, params, target, pc, stack, missingErr, ret, result, log,
      before, request, bodyLeft, data, reads, out>>

\* The variables of UnmarshalParams, which the request parsers leave alone.
bindVars ==
    <<DefaultRequired, record, params, target, pc, stack, missingErr, ret, result, log,
      before>>

\* The variables of the request parsers, which UnmarshalParams leaves alone.
parseVars == <<request, bodyLeft, data, reads, out>>

RECURSIVE LeafPaths(_, _)
\* the paths of the non-embedded fields of a struct, embedded structs followed
LeafPaths(fields, prefix) ==
    UNION {IF fields[i].anon
           THEN LeafPaths(fields[i].sub, Append(prefix, i))
           ELSE {Append(prefix, i)} : i \in DOMAIN fields}

RECURSIVE FieldAt(_, _)
\* the field at a path
FieldAt(fields, path) ==
    IF Len(path) = 1 THEN fields[path[1]]
    ELSE FieldAt(fields[path[1]].sub, Tail(path))

NoError == "nil"
NoResult == [kind |-> "none", names |-> << >>]

(***************************************************************************)
(* MissingFields                                                           *)
(***************************************************************************)

\* A variant of AddMissingField that puts the name in front.
AddMissingFieldFront(names, fieldName) == <<fieldName>> \o names

\* MissingFields.AddMissingField(fieldName)
AddMissingField(names, fieldName) == Append(names, fieldName)

\* MissingFields.HasMissingFields()
HasMissingFields(names) == Len(names) > 0

(***************************************************************************)
(* unmarshalToValue: one iteration of the loop on a non-embedded field     *)
(*                                                                         *)
(* The result of an iteration is [matched, parseErr, cell, missing, ev,    *)
(* key, panic]: the increment of matchedFields, the new parseErr, the new  *)
(* storage of the field, whether the key was added to the missing names,   *)
(* the calls made, the key the field resolved to, and whether the          *)
(* iteration panicked.                                                     *)
(***************************************************************************)

\* The field is passed over, or is optional, absent and without default.
stepNothing(cell, name) ==
    [matched |-> 0, parseErr |-> NoError, cell |-> cell, missing |-> FALSE,
     ev |-> << >>, key |-> name, panic |-> FALSE]

\* matchedFields++; parseErr = setValue(field, value), r what setValue did.
stepMatched(name, r) ==
    [matched |-> 1, parseErr |-> r.err, cell |-> r.cell, missing |-> FALSE,
     ev |-> <<"match">> \o r.ev, key |-> name, panic |-> FALSE]

\* missingErr.AddMissingField(name)
stepMissing(cell, name) ==
    [matched |-> 0, parseErr |-> NoError, cell |-> cell, missing |-> TRUE,
     ev |-> <<"missing">>, key |-> name, panic |-> FALSE]

\* setValue(field, defaulter.DefaultValue()), r what setValue did; its error
\* is dropped.
stepDefault(name, r) ==
    [matched |-> 0, parseErr |-> NoError, cell |-> r.cell, missing |-> FALSE,
     ev |-> <<"default">> \o r.ev, key |-> name, panic |-> FALSE]

\* defaulter.DefaultValue() panicked.
stepPanic(cell, name) ==
    [matched |-> 0, parseErr |-> NoError, cell |-> cell, missing |-> FALSE,
     ev |-> <<"default">>, key |-> name, panic |-> TRUE]

\* DefaultValue is found on field.Interface().  A method declared on the
\* value receiver, called through a nil pointer, panics.
DefaultPanics(t, cell) == t.ptr /\ cell.ptr = "nil" /\ ~t.dflt.onPtr

\* A variant of the default case that gives an optional field whose type has
\* DefaultValue its default before the name is looked up in params.
bindFieldDefaultFirst(fieldType, cell, ps, name, required) ==
    IF ~required /\ ImplementsValue(fieldType.type, fieldType.type.dflt)
                /\ ~DefaultPanics(fieldType.type, cell)
    THEN stepDefault(name, setValue(fieldType.type, cell, fieldType.type.dfltVal))
    ELSE IF name \in DOMAIN ps
    THEN stepMatched(name, setValue(fieldType.type, cell, ps[name]))
    ELSE IF required THEN stepMissing(cell, name)
    ELSE stepNothing(cell, name)

\* The default case of the switch on name, with name and whether the field
\* is required: the name is looked up in params.  A hit counts as matched and
\* goes to setValue; a miss of a required field is added to the missing
\* names; a miss of an optional field whose type has DefaultValue goes to
\* setValue with the default.
bindField(fieldType, cell, ps, name, required) ==
    IF name \in DOMAIN ps
    THEN stepMatched(name, setValue(fieldType.type, cell, ps[name]))
    ELSE IF required THEN stepMissing(cell, name)
    ELSE IF ImplementsValue(fieldType.type, fieldType.type.dflt)
    THEN IF DefaultPanics(fieldType.type, cell) THEN stepPanic(cell, name)
         ELSE stepDefault(name, setValue(fieldType.type, cell, fieldType.type.dfltVal))
    ELSE stepNothing(cell, name)

\* if unicode.IsUpper(rune(fieldType.Name[0]))
IsExported(fieldType) == IsUpper(fieldType.name[1])

\* The body of the loop from "Skip unexported fields", na being
\* NameAndArgs(fieldType): an unexported field and a field whose name is "-"
\* are passed over.
fieldStepNamed(fieldType, cell, ps, defaultRequired, na) ==
    IF ~IsExported(fieldType) \/ na[1] = Dash THEN stepNothing(cell, na[1])
    ELSE bindField(fieldType, cell, ps, na[1], RequiredFrom(na[2], defaultRequired))

\* The body of unmarshalToValue's loop for a field that is not embedded.
fieldStep(fieldType, cell, ps, defaultRequired) ==
    fieldStepNamed(fieldType, cell, ps, defaultRequired, NameAndArgs(fieldType))

\* A mutation of outcome: the missing fields are reported before the
\* parameter count is compared.
outcomeMissingFirst(matchedFields, nparams, names) ==
    IF HasMissingFields(names) THEN [kind |-> "missing", names |-> names]
    ELSE IF matchedFields < nparams THEN [kind |-> "unmatched", names |-> << >>]
    ELSE [kind |-> "nil", names |-> << >>]

\* The end of UnmarshalParams, after the traversal returned no error: the
\* error returned.
outcome(matchedFields, nparams, names) ==
    IF matchedFields < nparams THEN [kind |-> "unmatched", names |-> << >>]
    ELSE IF HasMissingFields(names) THEN [kind |-> "missing", names |-> names]
    ELSE [kind |-> "nil", names |-> << >>]

(***************************************************************************)
(* The actions                                                             *)
(***************************************************************************)

Top(st) == st[Len(st)]
Pop(st) == SubSeq(st, 1, Len(st) - 1)
Frame(fields, path) ==
    [fields |-> fields, i |-> 1, matchedFields |-> 0, parseErr |-> NoError, path |-> path]

\* UnmarshalParams up to the call of unmarshalToValue: a new MissingFields
\* and the outermost frame.
Call(c) ==
    /\ pc[c] = "start"
    /\ missingErr' = [missingErr EXCEPT ![c] = << >>]
    /\ stack' = [stack EXCEPT ![c] = <<Frame(record[c], << >>)>>]
    /\ pc' = [pc EXCEPT ![c] = "loop"]
    /\ UNCHANGED <<DefaultRequired, record, params, target, ret, result, log, before>>
    /\ UNCHANGED parseVars

\* The effect of an iteration r on the innermost frame fr and the state.
ApplyStep(c, fr, path, r) ==
    /\ stack' = [stack EXCEPT ![c] = Append(Pop(@),
           [fr EXCEPT !.i = @ + 1,
                      !.matchedFields = @ + r.matched,
                      !.parseErr = r.parseErr])]
    /\ target' = [target EXCEPT ![c][path] = r.cell]
    /\ missingErr' = [missingErr EXCEPT ![c] =
           IF r.missing THEN AddMissingField(@, r.key) ELSE @]
    /\ log' = [log EXCEPT ![c] = @ \o
           [j \in DOMAIN r.ev |-> [e |-> r.ev[j], path |-> path, key |-> r.key]]]
    /\ pc' = [pc EXCEPT ![c] = IF r.panic THEN "panic" ELSE "loop"]

\* The recursive call of unmarshalToValue on an embedded field.
Enter(c, fieldType, path) ==
    /\ stack' = [stack EXCEPT ![c] = Append(@, Frame(fieldType.sub, path))]
    /\ UNCHANGED <<target, missingErr, log, pc>>

\* A variant of the iteration in which every call looks its keys up in the
\* parameters of the first call.
IterateOnFirstParams(c, fr, fieldType, path) ==
    IF fieldType.anon
    THEN Enter(c, fieldType, path)
    ELSE ApplyStep(c, fr, path,
                   fieldStep(fieldType, target[c][path], params[1], DefaultRequired))

\* The iteration of the innermost frame fr on its field i.
Iterate(c, fr, fieldType, path) ==
    IF fieldType.anon
    THEN Enter(c, fieldType, path)
    ELSE ApplyStep(c, fr, path,
                   fieldStep(fieldType, target[c][path], params[c], DefaultRequired))

\* One iteration of unmarshalToValue's loop in the innermost frame: an
\* embedded field opens a frame for the recursive call, any other field is
\* handled by fieldStep.
Field(c) ==
    /\ pc[c] = "loop"
    /\ Top(stack[c]).i <= Len(Top(stack[c]).fields)
    /\ Top(stack[c]).parseErr = NoError
    /\ Iterate(c, Top(stack[c]), Top(stack[c]).fields[Top(stack[c]).i],
               Append(Top(stack[c]).path, Top(stack[c]).i))
    /\ UNCHANGED <<DefaultRequired, record, params, ret, result, before>>
    /\ UNCHANGED parseVars

\* A variant of the return of unmarshalToValue in which the caller takes the
\* error of an embedded struct but not its count.
ReturnWithoutCount(c) ==
    /\ pc[c] = "loop"
    /\ LET fr == Top(stack[c])
       IN  /\ fr.i > Len(fr.fields) \/ fr.parseErr # NoError
           /\ IF Len(stack[c]) > 1
              THEN LET caller == stack[c][Len(stack[c]) - 1]
                   IN  /\ stack' = [stack EXCEPT ![c] = Append(Pop(Pop(@)),
                              [caller EXCEPT !.i = @ + 1, !.parseErr = fr.parseErr])]
                       /\ UNCHANGED <<pc, ret>>
              ELSE /\ stack' = [stack EXCEPT ![c] = << >>]
                   /\ ret' = [ret EXCEPT ![c] =
                          [matchedFields |-> fr.matchedFields, err |-> fr.parseErr]]
                   /\ pc' = [pc EXCEPT ![c] = "returned"]
    /\ UNCHANGED <<DefaultRequired, record, params, target, missingErr, result, log, before>>
    /\ UNCHANGED parseVars

\* The innermost unmarshalToValue returns, its loop having run out of fields
\* or stopped on parseErr: the caller adds the count, takes the error and
\* goes on to its next field; the outermost call returns to UnmarshalParams.
Return(c) ==
    /\ pc[c] = "loop"
    /\ LET fr == Top(stack[c])
       IN  /\ fr.i > Len(fr.fields) \/ fr.parseErr # NoError
           /\ IF Len(stack[c]) > 1
              THEN LET caller == stack[c][Len(stack[c]) - 1]
                   IN  /\ stack' = [stack EXCEPT ![c] = Append(Pop(Pop(@)),
                              [caller EXCEPT !.i = @ + 1,
                                             !.matchedFields = @ + fr.matchedFields,
                                             !.parseErr = fr.parseErr])]
                       /\ UNCHANGED <<pc, ret>>
              ELSE /\ stack' = [stack EXCEPT ![c] = << >>]
                   /\ ret' = [ret EXCEPT ![c] =
                          [matchedFields |-> fr.matchedFields, err |-> fr.parseErr]]
                   /\ pc' = [pc EXCEPT ![c] = "returned"]
    /\ UNCHANGED <<DefaultRequired, record, params, target, missingErr, result, log, before>>
    /\ UNCHANGED parseVars

\* The end of UnmarshalParams: the error of the traversal, or the outcome of
\* the counts.
Finish(c) ==
    /\ pc[c] = "returned"
    /\ result' = [result EXCEPT ![c] =
           IF ret[c].err # NoError
           THEN [kind |-> ret[c].err, names |-> << >>]
           ELSE outcome(ret[c].matchedFields, Cardinality(DOMAIN params[c]),
                        missingErr[c])]
    /\ pc' = [pc EXCEPT ![c] = "done"]
    /\ UNCHANGED <<DefaultRequired, record, params, target, stack, missingErr, ret, log, before>>
    /\ UNCHANGED parseVars

Next == \E c \in Procs : Call(c) \/ Field(c) \/ Return(c) \/ Finish(c)

(***************************************************************************)
(* The inputs: field types, fields, records and parameter maps             *)
(***************************************************************************)

\* The greatest number of non-embedded fields of a record, embedded structs
\* included.
MaxLeaves == 2

\* The greatest number of entries of a parameter map.
MaxParams == 2

\* The deepest nesting of embedded structs.
MaxDepth == 1

NoMembers == [m \in {} |-> "int"]

BaseType(kind, name) ==
    [ptr |-> FALSE, kind |-> kind, name |-> name, members |-> NoMembers,
     pre |-> NoMethod, recv |-> NoMethod, post |-> NoMethod, dflt |-> NoMethod,
     dfltVal |-> VNil]

PtrTo(t) == [t EXCEPT !.ptr = TRUE]

TInt == BaseType("int", B(<<"i", "n", "t">>))
TInt8 == BaseType("int8", B(<<"i", "n", "t", "8">>))
TFloat == BaseType("float", B(<<"f", "l", "o", "a", "t", "6", "4">>))
TString == BaseType("string", B(<<"s", "t", "r", "i", "n", "g">>))
TBool == BaseType("bool", B(<<"b", "o", "o", "l">>))

\* sql.NullInt64: struct { Int64 int64; Valid bool }
TNullInt64 ==
    [BaseType("struct", B(<<"N", "u", "l", "l", "I", "n", "t", "6", "4">>))
     EXCEPT !.members = (B(<<"I", "n", "t", "6", "4">>) :> "int") @@ (SqlNotNullField :> "bool")]

\* sql.NullString: struct { String string; Valid bool }
TNullString ==
    [BaseType("struct", B(<<"N", "u", "l", "l", "S", "t", "r", "i", "n", "g">>))
     EXCEPT !.members = (B(<<"S", "t", "r", "i", "n", "g">>) :> "string")
                        @@ (SqlNotNullField :> "bool")]

\* A struct whose name starts with Null but that has no member named after
\* the rest of its name: struct { Valid bool; Count int }
TNullable ==
    [BaseType("struct", B(<<"N", "u", "l", "l", "a", "b", "l", "e">>))
     EXCEPT !.members = (B(<<"C", "o", "u", "n", "t">>) :> "int") @@ (SqlNotNullField :> "bool")]

\* type Password string, with Receive on the pointer receiver (the README's
\* example); variants whose hooks fail or that have other hooks.
TPassword == [BaseType("string", B(<<"P", "a", "s", "s">>)) EXCEPT !.recv = Method(TRUE, FALSE)]
TPasswordErr == [TPassword EXCEPT !.recv = Method(TRUE, TRUE)]

\* type Count int, with Receive on the value receiver.
TCount == [BaseType("int", B(<<"C", "o", "u", "n", "t">>)) EXCEPT !.recv = Method(FALSE, FALSE)]

\* type Hooked int with PreReceive and PostReceive but no Receive; variants
\* whose hooks fail.
THooked ==
    [BaseType("int", B(<<"H", "o", "o", "k", "e", "d">>))
     EXCEPT !.pre = Method(TRUE, FALSE), !.post = Method(TRUE, FALSE)]
THookedPreErr == [THooked EXCEPT !.pre = Method(TRUE, TRUE)]
THookedPostErr == [THooked EXCEPT !.post = Method(TRUE, TRUE)]

\* type Guarded string with all three methods; a variant whose PreReceive
\* fails.
TGuarded ==
    [TPassword EXCEPT !.name = B(<<"G", "u", "a", "r", "d">>),
                      !.pre = Method(TRUE, FALSE), !.post = Method(TRUE, FALSE)]
TGuardedPreErr == [TGuarded EXCEPT !.pre = Method(TRUE, TRUE)]

\* type Limit int with DefaultValue on the value receiver, returning 7; type
\* Token string with Receive and with DefaultValue returning "x".
TLimit ==
    [BaseType("int", B(<<"L", "i", "m", "i", "t">>))
     EXCEPT !.dflt = Method(FALSE, FALSE), !.dfltVal = VInt(7)]
TToken ==
    [TPassword EXCEPT !.name = B(<<"T", "o", "k", "e", "n">>),
                      !.recv = Method(FALSE, FALSE),
                      !.dflt = Method(FALSE, FALSE), !.dfltVal = VStr(B(<<"x">>))]

\* type Strict string, a Token whose Receive returns an error for every value,
\* its own default included.
TStrict == [TToken EXCEPT !.name = B(<<"S", "t", "r", "i", "c", "t">>),
                          !.recv = Method(FALSE, TRUE)]

TypeSet ==
    {TInt, TInt8, TFloat, TString, TBool, TNullInt64, TNullString, TNullable,
     PtrTo(TInt), PtrTo(TNullInt64), TPassword, PtrTo(TPassword), TPasswordErr, TCount,
     THooked, THookedPreErr, THookedPostErr, TGuarded, TGuardedPreErr,
     TLimit, PtrTo(TLimit), TToken, TStrict}

ValueSet ==
    {VNil, VInt(42), VInt(300), VInt(-3), VFloat(84), VFloat(5), VFloat(-5),
     VStr(B(<<"1", "7">>)), VStr(B(<<"-", "2">>)), VStr(B(<<"a", "b", "c">>)),
     VStr(B(<<"2", ".", "5">>)), VStr(EmptyStr), VBool(TRUE), VSlice(1)}

NoTag == [request |-> EmptyStr, response |-> EmptyStr, db |-> EmptyStr]

LeafField(name, tag, type) ==
    [name |-> name, anon |-> FALSE, tag |-> tag, type |-> type, sub |-> << >>]

EmbeddedField(name, tag, sub) ==
    [name |-> name, anon |-> TRUE, tag |-> tag, type |-> BaseType("struct", name), sub |-> sub]

\* The maps of at most max entries with keys and values from the given sets.
ParamMaps(keys, values, max) ==
    UNION {[ks -> values] : ks \in {k \in SUBSET keys : Cardinality(k) <= max}}

KeyA == B(<<"a">>)
KeyB == B(<<"b">>)
KeyC == B(<<"c">>)
KeyX == B(<<"x">>)
KeyFoo == B(<<"f", "o", "o">>)
KeyVal == B(<<"v", "a", "l">>)

\* Tags: one int field with every combination of the three tags and an
\* exported or an unexported name.
RequestTags ==
    {EmptyStr, Dash, KeyA,
     KeyA \o <<Comma>> \o OptionalStr,
     KeyA \o <<Comma>> \o RequiredStr,
     <<Comma>> \o OptionalStr,
     Dash \o <<Comma>> \o RequiredStr,
     KeyA \o <<Comma, Comma>> \o KeyX \o <<Comma>> \o RequiredStr \o <<Comma>> \o OptionalStr}
ResponseTags == {EmptyStr, Dash, KeyB}
DbTags == {EmptyStr, Dash, KeyC}

TagFields ==
    {LeafField(n, [request |-> rq, response |-> rs, db |-> d], TInt) :
        n \in {B(<<"F", "o", "o">>), KeyFoo}, rq \in RequestTags, rs \in ResponseTags,
        d \in DbTags}

TagInputs ==
    {[record |-> <<f>>, params |-> p, filled |-> FALSE] :
        f \in TagFields, p \in ParamMaps({KeyA, KeyB, KeyC, KeyFoo, Dash}, {VInt(1)}, MaxParams)}

\* Types: one field named Val of every type, required or optional by its
\* tag, with every value or none.
TypeInputs ==
    {[record |-> <<LeafField(B(<<"V", "a", "l">>), [NoTag EXCEPT !.request = rq], t)>>,
      params |-> p, filled |-> fl] :
        rq \in {EmptyStr, <<Comma>> \o OptionalStr}, t \in TypeSet,
        p \in ParamMaps({KeyVal}, ValueSet, 1), fl \in BOOLEAN}

\* Structure: records of several fields, some in embedded structs.  Aa and
\* Ab have the same key; B is required whatever DefaultRequired is.  (Fields
\* that are unexported or tagged "-" are among TagFields.)
StructFields ==
    {LeafField(B(<<"A", "a">>), [NoTag EXCEPT !.request = KeyA], TInt),
     LeafField(B(<<"A", "b">>), [NoTag EXCEPT !.request = KeyA], TInt),
     LeafField(B(<<"B">>), [NoTag EXCEPT !.request = <<Comma>> \o RequiredStr], TString)}

\* The embedded structs: Base without a tag, Meta tagged request:"-".
EmbeddedKinds ==
    {[name |-> B(<<"B", "a", "s", "e">>), tag |-> NoTag],
     [name |-> B(<<"M", "e", "t", "a">>), tag |-> [NoTag EXCEPT !.request = Dash]]}

\* No two fields of one struct have the same name.
DistinctNames(fields) ==
    \A i, j \in DOMAIN fields : fields[i].name = fields[j].name => i = j

RECURSIVE EmbeddedNames(_)
\* the names of the embedded struct types of a record, at every depth
EmbeddedNames(fields) ==
    IF fields = << >> THEN << >>
    ELSE (IF Head(fields).anon
          THEN <<Head(fields).name>> \o EmbeddedNames(Head(fields).sub)
          ELSE << >>) \o EmbeddedNames(Tail(fields))

\* A struct type has one declaration and does not embed itself: a record
\* embeds each struct type once.
DistinctTypes(names) ==
    \A i, j \in DOMAIN names : names[i] = names[j] => i = j

RECURSIVE RecordsOf(_, _)
\* the records with exactly n non-embedded fields, embedded structs (each
\* with at least one field) nested to depth d at most
RecordsOf(n, d) ==
    IF n = 0 THEN {<< >>}
    ELSE LET leafFirst ==
                 {<<f>> \o rest : f \in StructFields, rest \in RecordsOf(n - 1, d)}
             embFirst ==
                 IF d = 0 THEN {}
                 ELSE UNION {{<<EmbeddedField(e.name, e.tag, sub)>> \o rest :
                                 e \in EmbeddedKinds, sub \in RecordsOf(k, d - 1),
                                 rest \in RecordsOf(n - k, d)} : k \in 1..n}
         IN  {r \in leafFirst \cup embFirst :
                 DistinctNames(r) /\ DistinctTypes(EmbeddedNames(r))}

\* The parameters given to them: "a", the key of the int fields, with an int
\* or with a string that is no number; "b", the key of the string field, with
\* a string; and "x", the key of no field, with an int.
StructParams ==
    {p \in ParamMaps({KeyA, KeyB, KeyX}, {VInt(1), VStr(B(<<"a", "b", "c">>))}, MaxParams) :
        \A k \in DOMAIN p : /\ k = KeyB => p[k].k = "string"
                            /\ k = KeyX => p[k].k = "int"}

StructInputs ==
    {[record |-> r, params |-> p, filled |-> FALSE] :
        r \in UNION {RecordsOf(n, MaxDepth) : n \in 1..MaxLeaves}, p \in StructParams}

Inputs == TagInputs \cup TypeInputs \cup StructInputs

\* The storage of a field before the call: the zero value, or a value set
\* earlier.
FilledCell(t) ==
    [ptr |-> IF t.ptr THEN "set" ELSE "na", i |-> 9, s |-> B(<<"z">>), b |-> TRUE,
     valid |-> TRUE, got |-> FALSE, raw |-> VNil]

InitialTarget(in) ==
    [path \in LeafPaths(in.record, << >>) |->
        IF in.filled THEN FilledCell(FieldAt(in.record, path).type)
        ELSE ZeroCell(FieldAt(in.record, path).type)]

NoParams == [k \in {} |-> VNil]

(***************************************************************************)
(* The request parsers (request_parsers.go)                                *)
(*                                                                         *)
(* A body value is a record [k, s, m]: k is its Go type ("nil", "string",  *)
(* "strings" for []string, "files" for the uploaded files, "msi" for       *)
(* map[string]interface{}, "map" for objx.Map, "array" for []interface{}), *)
(* s the bytes of a string, m the entries of a map or the elements of a    *)
(* slice.                                                                  *)
(***************************************************************************)

PNil == [k |-> "nil", s |-> EmptyStr, m |-> << >>]
PStr(s) == [k |-> "string", s |-> s, m |-> << >>]
PStrings(values) == [k |-> "strings", s |-> EmptyStr, m |-> values]
PFiles == [k |-> "files", s |-> EmptyStr, m |-> << >>]
PMsi(entries) == [k |-> "msi", s |-> EmptyStr, m |-> entries]
PObjx(entries) == [k |-> "map", s |-> EmptyStr, m |-> entries]
PArray(elements) == [k |-> "array", s |-> EmptyStr, m |-> elements]

\* how many calls of the parsers are followed on one context
MaxCalls == 3
\* how many values a form key has at most
MaxValues == 2

KeyFiles == B(<<"f", "i", "l", "e", "s">>)
FormKeys == {KeyA, KeyFiles}
FormValues == {B(<<"x">>), B(<<"y">>)}

\* request.Form: every key that occurs has one value or more.
Forms ==
    UNION {[keys -> UNION {[1..n -> FormValues] : n \in 1..MaxValues}] :
              keys \in SUBSET FormKeys}

\* the documents a JSON body holds
JsonDocs ==
    {PNil, PStr(B(<<"x">>)), PMsi(<< >>), PMsi(KeyA :> PStr(B(<<"x">>))),
     PMsi(KeyA :> PMsi(KeyB :> PStr(B(<<"x">>)))),
     PArray(<<PMsi(KeyA :> PStr(B(<<"x">>)))>>)}

\* a request with a JSON content type: reading the body can fail, and the
\* body can be something that is no JSON document
JsonRequests ==
    {[mimeType |-> mt, readErr |-> re, valid |-> ok, doc |-> d,
      form |-> << >>, multipart |-> FALSE, value |-> << >>] :
        mt \in {"text/json", "application/json"}, re \in BOOLEAN, ok \in BOOLEAN,
        d \in JsonDocs}

\* MultipartForm.Value of a multipart request whose form is form: the values
\* of the body's parts; with query the first value of every key that has
\* several came from the URL's query, and is in request.Form alone.
PartValues(form, query) ==
    IF query
    THEN [key \in {kk \in DOMAIN form : Len(form[kk]) > 1} |-> Tail(form[key])]
    ELSE form

\* a request of any other content type: request.MultipartForm is set when
\* the body is a well-formed multipart body
FormRequests ==
    {[mimeType |-> mt, readErr |-> FALSE, valid |-> FALSE, doc |-> PNil,
      form |-> f, multipart |-> FALSE, value |-> << >>] :
        mt \in {"", "application/x-www-form-urlencoded", "multipart/form-data"},
        f \in Forms}
    \cup
    {[mimeType |-> "multipart/form-data", readErr |-> FALSE, valid |-> FALSE,
      doc |-> PNil, form |-> f, multipart |-> TRUE, value |-> PartValues(f, q)] :
        f \in Forms, q \in BOOLEAN}

Requests == JsonRequests \cup FormRequests

RECURSIVE ConvertMSIToObjxMap(_)
ConvertMSIToObjxMap(value) ==
    IF value.k = "msi"
    THEN PObjx([key \in DOMAIN value.m |-> ConvertMSIToObjxMap(value.m[key])])
    ELSE IF value.k = "array"
         THEN PArray([index \in DOMAIN value.m |-> ConvertMSIToObjxMap(value.m[index])])
         ELSE value

\* a parser that puts every []string in the map as it is
keepEvery(values) == PStrings(values)

\* what ParseBody puts in the map for the values of one key
collapse(values) == IF Len(values) = 1 THEN PStr(values[1]) ELSE PStrings(values)

\* one of ParseBody's loops: params.Set for every key of the form
setAll(entries, form) ==
    [key \in DOMAIN entries \cup DOMAIN form |->
        IF key \in DOMAIN form THEN collapse(form[key]) ELSE entries[key]]

\* params after the MultipartForm branch
multipartEntries(req) ==
    IF req.multipart THEN setAll(KeyFiles :> PFiles, req.value) ELSE << >>

\* the default case of ParseBody's switch
formBody(req) == PObjx(setAll(multipartEntries(req), req.form))

\* a parser that puts nil in ctx.Data() when it returns an error
failedAndStored(err, dat, left) ==
    [val |-> PNil, err |-> err, data |-> [has |-> TRUE, val |-> PNil], bodyLeft |-> left,
     read |-> 1]

\* ParseBody returns an error: nothing is put in ctx.Data()
failed(err, dat, left) ==
    [val |-> PNil, err |-> err, data |-> dat, bodyLeft |-> left, read |-> 1]

\* the end of ParseBody: conversion, ctx.Data().Set, return
parsed(response) ==
    [val |-> ConvertMSIToObjxMap(response), err |-> "nil",
     data |-> [has |-> TRUE, val |-> ConvertMSIToObjxMap(response)],
     bodyLeft |-> FALSE, read |-> 1]

\* the JSON case of ParseBody's switch: a body that was read before has
\* nothing left, and nothing is no JSON document
jsonBody(dat, req, left) ==
    IF req.readErr THEN failed("read", dat, left)
    ELSE IF ~left \/ ~req.valid THEN failed("decode", dat, FALSE)
    ELSE parsed(req.doc)

\* ParseBody on a context whose Data() is dat and whose request is req:
\* what it returns, and what it leaves behind
parseBody(dat, req, left) ==
    IF dat.has
    THEN [val |-> dat.val, err |-> "nil", data |-> dat, bodyLeft |-> left, read |-> 0]
    ELSE IF req.mimeType \in {"text/json", "application/json"}
         THEN jsonBody(dat, req, left)
         ELSE parsed(formBody(req))

\* what ParseParams makes of the return r of ParseBody
parseParams(r) ==
    IF r.err # "nil" THEN [val |-> PNil, err |-> r.err]
    ELSE IF r.val.k = "nil" THEN [val |-> PNil, err |-> "nil"]
    ELSE IF r.val.k # "map" THEN [val |-> PNil, err |-> "non-map"]
    ELSE [val |-> r.val, err |-> "nil"]

\* A call returns: the context is as the call left it.
Deliver(fn, r, val, err) ==
    /\ data' = r.data
    /\ bodyLeft' = r.bodyLeft
    /\ reads' = reads + r.read
    /\ out' = Append(out, [fn |-> fn, val |-> val, err |-> err, read |-> r.read,
                           had |-> data.has, has |-> r.data.has])
    /\ UNCHANGED request
    /\ UNCHANGED bindVars

deliverBody(r) == Deliver("ParseBody", r, r.val, r.err)
deliverParams(r, p) == Deliver("ParseParams", r, p.val, p.err)

ParseBody ==
    /\ Len(out) < MaxCalls
    /\ deliverBody(parseBody(data, request, bodyLeft))

ParseParams ==
    /\ Len(out) < MaxCalls
    /\ deliverParams(parseBody(data, request, bodyLeft),
                     parseParams(parseBody(data, request, bodyLeft)))

NextParse == ParseBody \/ ParseParams

\* No request is being parsed.
NoRequestYet ==
    /\ request = [mimeType |-> "", readErr |-> FALSE, valid |-> FALSE, doc |-> PNil,
                  form |-> << >>, multipart |-> FALSE, value |-> << >>]
    /\ bodyLeft = TRUE
    /\ data = [has |-> FALSE, val |-> PNil]
    /\ reads = 0
    /\ out = << >>

\* One call of UnmarshalParams is about to be made, on any input; the other
\* call is not made.
Init ==
    /\ DefaultRequired \in BOOLEAN
    /\ \E in \in Inputs :
          /\ record = [c \in Procs |-> IF c = 1 THEN in.record ELSE << >>]
          /\ params = [c \in Procs |-> IF c = 1 THEN in.params ELSE NoParams]
          /\ target = [c \in Procs |-> IF c = 1 THEN InitialTarget(in)
                                       ELSE [path \in {} |-> ZeroCell(TInt)]]
          /\ before = [c \in Procs |-> IF c = 1 THEN InitialTarget(in)
                                       ELSE [path \in {} |-> ZeroCell(TInt)]]
    /\ pc = [c \in Procs |-> IF c = 1 THEN "start" ELSE "idle"]
    /\ stack = [c \in Procs |-> << >>]
    /\ missingErr = [c \in Procs |-> << >>]
    /\ ret = [c \in Procs |-> [matchedFields |-> 0, err |-> NoError]]
    /\ result = [c \in Procs |-> NoResult]
    /\ log = [c \in Procs |-> << >>]
    /\ NoRequestYet

Spec == Init /\ [][Next]_vars

(***************************************************************************)
(* Two calls at once                                                       *)
(***************************************************************************)

\* The inputs of the concurrent calls: a record with a field of its own and
\* one in an embedded struct, with at most two parameters; and a field of a
\* type with hooks or a default, absent, given a string or given null.
ConcInputs ==
    {[record |-> r, params |-> p, filled |-> FALSE] :
        r \in {q \in RecordsOf(2, 1) : /\ Len(q) = 2
                                       /\ q[1].name = B(<<"A", "a">>)
                                       /\ q[2].name = B(<<"B", "a", "s", "e">>)},
        p \in {q \in StructParams : Cardinality(DOMAIN q) <= 2}}
    \cup
    {[record |-> <<LeafField(B(<<"V", "a", "l">>),
                             [NoTag EXCEPT !.request = <<Comma>> \o OptionalStr], t)>>,
      params |-> p, filled |-> FALSE] :
        t \in {TToken, TGuarded, TLimit},
        p \in ParamMaps({KeyVal}, {VNil, VStr(B(<<"1", "7">>))}, 1)}

\* Two goroutines are about to call UnmarshalParams, each with a target and
\* a parameter map of its own.
InitConc ==
    /\ DefaultRequired \in BOOLEAN
    /\ \E ins \in [Procs -> ConcInputs] :
          /\ record = [c \in Procs |-> ins[c].record]
          /\ params = [c \in Procs |-> ins[c].params]
          /\ target = [c \in Procs |-> InitialTarget(ins[c])]
          /\ before = [c \in Procs |-> InitialTarget(ins[c])]
    /\ pc = [c \in Procs |-> "start"]
    /\ stack = [c \in Procs |-> << >>]
    /\ missingErr = [c \in Procs |-> << >>]
    /\ ret = [c \in Procs |-> [matchedFields |-> 0, err |-> NoError]]
    /\ result = [c \in Procs |-> NoResult]
    /\ log = [c \in Procs |-> << >>]
    /\ NoRequestYet

\* The goroutines are interleaved step by step.
SpecConc == InitConc /\ [][Next]_vars

(***************************************************************************)
(* Calls of the request parsers on one context                             *)
(***************************************************************************)

\* No call of UnmarshalParams is made.
NoBinding ==
    /\ DefaultRequired = TRUE
    /\ record = [c \in Procs |-> << >>]
    /\ params = [c \in Procs |-> NoParams]
    /\ target = [c \in Procs |-> [path \in {} |-> ZeroCell(TInt)]]
    /\ before = [c \in Procs |-> [path \in {} |-> ZeroCell(TInt)]]
    /\ pc = [c \in Procs |-> "idle"]
    /\ stack = [c \in Procs |-> << >>]
    /\ missingErr = [c \in Procs |-> << >>]
    /\ ret = [c \in Procs |-> [matchedFields |-> 0, err |-> NoError]]
    /\ result = [c \in Procs |-> NoResult]
    /\ log = [c \in Procs |-> << >>]

\* A context with a request of any kind, nothing parsed yet.
InitParse ==
    /\ NoBinding
    /\ request \in Requests
    /\ bodyLeft = TRUE
    /\ data = [has |-> FALSE, val |-> PNil]
    /\ reads = 0
    /\ out = << >>

\* ParseBody and ParseParams are called on the context, in any order.
SpecParse == InitParse /\ [][NextParse]_vars

(***************************************************************************)
(* What the claims speak of                                                *)
(***************************************************************************)

RECURSIVE FlatFrom(_, _, _)
\* the paths of the non-embedded fields from field i on, in depth-first
\* declaration order
FlatFrom(fields, prefix, i) ==
    IF i > Len(fields) THEN << >>
    ELSE (IF fields[i].anon THEN FlatFrom(fields[i].sub, Append(prefix, i), 1)
          ELSE <<Append(prefix, i)>>) \o FlatFrom(fields, prefix, i + 1)

\* The non-embedded fields of call c's record, in depth-first declaration
\* order.
FlatPaths(c) == FlatFrom(record[c], << >>, 1)

LeafAt(c, path) == FieldAt(record[c], path)
KeyOf(c, path) == NameAndArgs(LeafAt(c, path))[1]
ArgsOf(c, path) == NameAndArgs(LeafAt(c, path))[2]

\* The field takes part in binding: it is exported and its key is not "-".
Bound(c, path) == IsExported(LeafAt(c, path)) /\ KeyOf(c, path) # Dash

Present(c, path) == KeyOf(c, path) \in DOMAIN params[c]
IsRequired(c, path) == RequiredFrom(ArgsOf(c, path), DefaultRequired)

\* The entries of call c's log of one kind.
Events(c, e) == {j \in DOMAIN log[c] : log[c][j].e = e}
EventsAt(c, e, path) == {j \in Events(c, e) : log[c][j].path = path}

\* UnmarshalParams has returned, its traversal having ended without error.
Traversed(c) == pc[c] = "done" /\ ret[c].err = NoError

\* The number of fields that matched a parameter, at every depth.
MatchedCount(c) == Cardinality(Events(c, "match"))

\* The keys of the required fields that have no parameter, in depth-first
\* declaration order.
AbsentRequired(c) ==
    LET absent == SelectSeq(FlatPaths(c),
                     LAMBDA p : Bound(c, p) /\ ~Present(c, p) /\ IsRequired(c, p))
    IN  [j \in DOMAIN absent |-> KeyOf(c, absent[j])]

\* The parameters whose key no field resolves to.
Unmatched(c) ==
    {k \in DOMAIN params[c] :
        ~\E j \in DOMAIN FlatPaths(c) :
            Bound(c, FlatPaths(c)[j]) /\ KeyOf(c, FlatPaths(c)[j]) = k}

(***************************************************************************)
(* The claims                                                              *)
(***************************************************************************)

\* C1: when the traversal ends without a conversion or hook error, the
\* outcome is decided in this order: fewer matched fields (at every depth)
\* than parameters is the generic hard error; else a non-empty list of
\* missing fields is returned as MissingFields; else nil.
C1_OutcomeOrder ==
    \A c \in Procs :
        Traversed(c) =>
            IF MatchedCount(c) < Cardinality(DOMAIN params[c])
            THEN result[c].kind = "unmatched"
            ELSE IF missingErr[c] # << >>
            THEN result[c].kind = "missing" /\ result[c].names = missingErr[c]
            ELSE result[c].kind = "nil"

\* C1 witness: a call with a field matched inside an embedded struct, a
\* required field missing and a parameter too many returned the hard error.
C1_Witness ==
    \E c \in Procs :
        /\ Traversed(c)
        /\ missingErr[c] # << >>
        /\ \E j \in Events(c, "match") : Len(log[c][j].path) > 1
        /\ MatchedCount(c) < Cardinality(DOMAIN params[c])
        /\ result[c].kind = "unmatched"

\* C2 (as claimed): when the traversal ends without error and some parameter
\* has a key that no bound field of the record or of its embedded structs
\* resolves to, UnmarshalParams returns the hard error for unmatched
\* parameters.
C2_UnmatchedReported ==
    \A c \in Procs :
        (Traversed(c) /\ Unmatched(c) # {}) => result[c].kind = "unmatched"

\* C3 (as claimed): when at least one required field has no parameter,
\* UnmarshalParams returns MissingFields with exactly the keys of the absent
\* required fields, in depth-first declaration order, and nothing else.
C3_MissingAlways ==
    \A c \in Procs :
        (pc[c] = "done" /\ AbsentRequired(c) # << >>) =>
            result[c].kind = "missing" /\ result[c].names = AbsentRequired(c)

\* C3 (amended): when at least one required field has no parameter, the
\* traversal ends without a conversion or hook error and no fewer fields
\* matched than there are parameters, UnmarshalParams returns MissingFields
\* with exactly the keys of the absent required fields, one entry per field,
\* in depth-first declaration order.
C3_MissingWhenNoHardError ==
    \A c \in Procs :
        (/\ Traversed(c)
         /\ AbsentRequired(c) # << >>
         /\ MatchedCount(c) >= Cardinality(DOMAIN params[c])) =>
            result[c].kind = "missing" /\ result[c].names = AbsentRequired(c)

\* C3 witness: MissingFields was returned with two different names, one from a
\* field after an embedded struct or inside one.
C3_Witness ==
    \E c \in Procs :
        /\ Traversed(c)
        /\ result[c].kind = "missing"
        /\ Len(result[c].names) = 2
        /\ result[c].names[1] # result[c].names[2]
        /\ result[c].names = AbsentRequired(c)
        /\ \E j \in DOMAIN FlatPaths(c) : Len(FlatPaths(c)[j]) > 1

(***************************************************************************)
(* C4: what a value is, independently of how it is converted               *)
(***************************************************************************)

RECURSIVE NatText(_)
\* the decimal digits of a natural number
NatText(n) == IF n < 10 THEN <<Ord("0") + n>> ELSE NatText(n \div 10) \o <<Ord("0") + (n % 10)>>

\* The decimal text of an integer.
IntText(n) == IF n < 0 THEN <<Ord("-")>> \o NatText(-n) ELSE NatText(n)

\* The decimal text of a float with one fractional bit, given as twice its
\* value.
FloatText(h) ==
    (IF h < 0 THEN <<Ord("-")>> ELSE << >>)
    \o NatText((IF h < 0 THEN -h ELSE h) \div 2)
    \o (IF h % 2 = 1 THEN <<Ord("."), Ord("5")>> ELSE << >>)

\* The integers a value denotes exactly.
IntValues(v) ==
    IF v.k = "int" THEN {v.i}
    ELSE IF v.k = "float" THEN (IF v.i % 2 = 0 THEN {v.i \div 2} ELSE {})
    ELSE IF v.k = "string" THEN {n \in -400..400 : IntText(n) = v.s}
    ELSE {}

\* The floats (as twice their value) a value denotes exactly.
FloatValues(v) ==
    IF v.k = "int" THEN {2 * v.i}
    ELSE IF v.k = "float" THEN {v.i}
    ELSE IF v.k = "string" THEN {h \in -800..800 : FloatText(h) = v.s}
    ELSE {}

\* The kind of the scalar a type's built-in conversion fills.
ScalarKind(t) == IF IsNullable(t) THEN t.members[NullableMember(t)] ELSE t.kind

HasAnyHook(t) == t.pre.has \/ t.recv.has \/ t.post.has
HookFails(t) ==
    (t.pre.has /\ t.pre.err) \/ (t.recv.has /\ t.recv.err) \/ (t.post.has /\ t.post.err)

\* A non-null value is compatible with a scalar kind when it denotes a value
\* of that kind exactly.
ScalarCompatible(v, kind) ==
    \/ kind = "int" /\ IntValues(v) # {}
    \/ kind = "int8" /\ \E n \in IntValues(v) : n >= -128 /\ n <= 127
    \/ kind = "float" /\ FloatValues(v) # {}
    \/ kind = "string" /\ v.k = "string"
    \/ kind = "bool" /\ v.k = "bool"

\* A value is type-compatible with a field type: null with a pointer or a
\* nullable struct; any other value with a type that receives it itself, and
\* with a built-in type whose scalar it denotes exactly.  No value is
\* compatible with a type whose own hook rejects it.
Compatible(v, t) ==
    IF v.k = "nil" THEN t.ptr \/ IsNullable(t)
    ELSE /\ ~HookFails(t)
         /\ t.recv.has \/ ScalarCompatible(v, ScalarKind(t))

\* The field holds the value supplied.
Holds(cell, v, t) ==
    IF v.k = "nil"
    THEN IF t.ptr THEN cell.ptr = "nil"
         ELSE ~cell.valid /\ cell.i = 0 /\ cell.s = EmptyStr
    ELSE /\ t.ptr => cell.ptr = "set"
         /\ IsNullable(t) => cell.valid
         /\ IF t.recv.has THEN cell.got /\ cell.raw = v
            ELSE \/ ScalarKind(t) \in {"int", "int8"} /\ cell.i \in IntValues(v)
                 \/ ScalarKind(t) = "float" /\ cell.i \in FloatValues(v)
                 \/ ScalarKind(t) = "string" /\ cell.s = v.s
                 \/ ScalarKind(t) = "bool" /\ cell.b = v.b

RECURSIVE AllPathsOf(_, _)
\* the paths of all the fields of a struct, embedded ones and theirs included
AllPathsOf(fields, prefix) ==
    UNION {{Append(prefix, i)} \cup
           (IF fields[i].anon THEN AllPathsOf(fields[i].sub, Append(prefix, i)) ELSE {}) :
           i \in DOMAIN fields}

AllPaths(c) == AllPathsOf(record[c], << >>)
Leaves(c) == LeafPaths(record[c], << >>)

\* Every field is exported and none resolves to "-", and every field that is
\* not an embedded struct is required.
OnlyRequiredFields(c) ==
    /\ \A q \in AllPaths(c) :
          IsExported(LeafAt(c, q)) /\ NameAndArgs(LeafAt(c, q))[1] # Dash
    /\ \A p \in Leaves(c) : IsRequired(c, p)

\* The parameters are exactly the keys of the fields, each with a value that
\* is compatible with its fields.
ExactCompatibleParams(c) ==
    /\ DOMAIN params[c] = {KeyOf(c, p) : p \in Leaves(c)}
    /\ \A p \in Leaves(c) : Compatible(params[c][KeyOf(c, p)], LeafAt(c, p).type)

\* C4 (as claimed): for a record with only required fields and parameters
\* that are exactly their keys with type-compatible values, UnmarshalParams
\* returns nil and every field holds its value.  A call that ends otherwise,
\* or does not end in a return, violates it.
C4_BindsAll ==
    \A c \in Procs :
        (/\ pc[c] \in {"done", "panic"}
         /\ OnlyRequiredFields(c)
         /\ ExactCompatibleParams(c)) =>
            /\ pc[c] = "done"
            /\ result[c].kind = "nil"
            /\ \A p \in Leaves(c) :
                  Holds(target[c][p], params[c][KeyOf(c, p)], LeafAt(c, p).type)

(***************************************************************************)
(* C5: the resolved key, as the precedence list states it                  *)
(***************************************************************************)

\* The text of a tag before its first comma.
BeforeComma(tag) ==
    SubSeq(tag, 1, CHOOSE n \in 0..Len(tag) :
                       /\ \A j \in 1..n : tag[j] # Comma
                       /\ n = Len(tag) \/ tag[n + 1] = Comma)

\* The four candidates for a field's key, in order of precedence; a db tag of
\* "-" is no candidate.
KeyCandidates(f) ==
    <<BeforeComma(f.tag.request), f.tag.response,
      IF f.tag.db = Dash THEN EmptyStr ELSE f.tag.db, ToLower(f.name)>>

\* The first candidate that is not empty.
ClaimedKey(f) ==
    KeyCandidates(f)[CHOOSE i \in 1..4 :
                        /\ KeyCandidates(f)[i] # EmptyStr
                        /\ \A j \in 1..(i - 1) : KeyCandidates(f)[j] = EmptyStr]

\* "-" from the request step, or from the response step when the request
\* name is empty.
ClaimedSkipped(f) ==
    \/ BeforeComma(f.tag.request) = Dash
    \/ BeforeComma(f.tag.request) = EmptyStr /\ f.tag.response = Dash

Excluded(f) == ~IsExported(f) \/ NameAndArgs(f)[1] = Dash

\* The paths of the non-embedded fields at or below a path.
LeavesUnder(c, q) ==
    {p \in Leaves(c) : Len(p) >= Len(q) /\ SubSeq(p, 1, Len(q)) = q}

\* C6 (as claimed): a field that is unexported or tagged "-" is excluded from
\* binding: at no time has UnmarshalParams matched it, listed it as missing
\* or called a method of it, and its value is what it was before the call.
\* An embedded struct is a field, and its value is that of its fields.
C6_ExcludedUntouched ==
    \A c \in Procs : \A q \in AllPaths(c) :
        Excluded(LeafAt(c, q)) =>
            \A p \in LeavesUnder(c, q) :
                /\ \A j \in DOMAIN log[c] : log[c][j].path # p
                /\ target[c][p] = before[c][p]

\* The request tag is a name, a comma and the one option.
TaggedWith(f, option) ==
    /\ BeforeComma(f.tag.request) # EmptyStr
    /\ f.tag.request = BeforeComma(f.tag.request) \o <<Comma>> \o option

\* C7: a traversal that ended without error, with DefaultRequired true, has
\* not listed an absent field tagged request:"name,optional" as missing, and
\* UnmarshalParams returned nil when the record has no other field and there
\* are no parameters; with DefaultRequired false, it has listed an absent
\* field tagged request:"name,required" as missing, under "name"; and an
\* absent field whose request tag has no options is listed as missing
\* exactly when DefaultRequired is true.
C7_Requiredness ==
    \A c \in Procs : \A p \in Leaves(c) :
        (Traversed(c) /\ Bound(c, p) /\ ~Present(c, p)) =>
            /\ (DefaultRequired /\ TaggedWith(LeafAt(c, p), OptionalStr)) =>
                  /\ EventsAt(c, "missing", p) = {}
                  /\ (Leaves(c) = {p} /\ DOMAIN params[c] = {}) => result[c].kind = "nil"
            /\ (~DefaultRequired /\ TaggedWith(LeafAt(c, p), RequiredStr)) =>
                  /\ EventsAt(c, "missing", p) # {}
                  /\ \E j \in DOMAIN missingErr[c] :
                        missingErr[c][j] = BeforeComma(LeafAt(c, p).tag.request)
                  /\ result[c].kind \in {"missing", "unmatched"}
            /\ (IndexRune(LeafAt(c, p).tag.request, Comma) = -1) =>
                  ((EventsAt(c, "missing", p) # {}) <=> DefaultRequired)

\* C7 witness: with DefaultRequired false, MissingFields was returned with
\* the name of an absent field tagged request:"name,required".
C7_Witness ==
    \E c \in Procs : \E p \in Leaves(c) :
        /\ Traversed(c)
        /\ ~DefaultRequired
        /\ TaggedWith(LeafAt(c, p), RequiredStr)
        /\ ~Present(c, p)
        /\ result[c].kind = "missing"
        /\ result[c].names = <<BeforeComma(LeafAt(c, p).tag.request)>>

\* C7 second witness: with DefaultRequired true, nil was returned for a
\* record whose one field, tagged request:"name,optional", was absent.
C7_WitnessOptional ==
    \E c \in Procs : \E p \in Leaves(c) :
        /\ Traversed(c)
        /\ DefaultRequired
        /\ TaggedWith(LeafAt(c, p), OptionalStr)
        /\ Leaves(c) = {p}
        /\ DOMAIN params[c] = {}
        /\ result[c].kind = "nil"

(***************************************************************************)
(* C8, C9, C10                                                             *)
(***************************************************************************)

\* The parameter a matched field was given.
Given(c, p) == params[c][KeyOf(c, p)]

\* The field was matched: its key is in params and the traversal reached it.
Matched(c, p) == EventsAt(c, "match", p) # {}

\* C8 (as claimed): a field whose type has Receive has Receive called for
\* whatever value it is matched with, null included, and the built-in
\* conversion does not run for it.
C8_ReceiveAlways ==
    \A c \in Procs : \A p \in Leaves(c) :
        (LeafAt(c, p).type.recv.has /\ Matched(c, p)) =>
            /\ EventsAt(c, "recv", p) # {}
            /\ EventsAt(c, "conv", p) = {}

\* C8 (amended): a field whose type has Receive, matched with a value that is
\* not null, has Receive called exactly once with that value unless its
\* PreReceive returned an error; matched with null, it has Receive not called
\* at all: the call ends in the null error, or with the pointer reset to nil.
\* In no case does the built-in conversion run for the field.
C8_ReceiveUnlessNull ==
    \A c \in Procs : \A p \in Leaves(c) :
        LeafAt(c, p).type.recv.has =>
            /\ EventsAt(c, "conv", p) = {}
            /\ (Matched(c, p) /\ Given(c, p).k # "nil") =>
                  IF LeafAt(c, p).type.pre.has /\ LeafAt(c, p).type.pre.err
                  THEN EventsAt(c, "recv", p) = {}
                  ELSE /\ Cardinality(EventsAt(c, "recv", p)) = 1
                       /\ ~LeafAt(c, p).type.recv.err =>
                             target[c][p].got /\ target[c][p].raw = Given(c, p)
            /\ (Matched(c, p) /\ Given(c, p).k = "nil") =>
                  /\ EventsAt(c, "recv", p) = {}
                  /\ IF LeafAt(c, p).type.ptr
                     THEN target[c][p].ptr = "nil"
                     ELSE target[c][p] = before[c][p]
                  /\ pc[c] = "done" =>
                        result[c].kind = IF LeafAt(c, p).type.ptr THEN "nil"
                                         ELSE "null-non-pointer"

\* C8 witness: a field of an integer type with Receive was matched with an
\* int, which the built-in conversion would take: Receive got it and the
\* integer of the field is as before.
C8_Witness ==
    \E c \in Procs : \E p \in Leaves(c) :
        /\ pc[c] = "done"
        /\ LeafAt(c, p).type.recv.has
        /\ LeafAt(c, p).type.kind = "int"
        /\ Matched(c, p)
        /\ Given(c, p) = VInt(42)
        /\ Cardinality(EventsAt(c, "recv", p)) = 1
        /\ target[c][p].raw = VInt(42)
        /\ target[c][p].i = before[c][p].i
        /\ before[c][p].i # 42

\* A nullable wrapper for integers: a struct Null<T>, not behind a pointer,
\* with an integer member <T> and a member Valid, and no methods.
IsNullInt(t) ==
    ~t.ptr /\ IsNullable(t) /\ t.members[NullableMember(t)] = "int" /\ ~HasAnyHook(t)

\* C9 (as claimed): a field that is a nullable wrapper for integers, matched
\* with null, ends invalid with its integer unset and UnmarshalParams does
\* not fail; matched with 42, it ends valid with the integer 42.
C9_NullableWrapper ==
    \A c \in Procs : \A p \in Leaves(c) :
        (pc[c] = "done" /\ IsNullInt(LeafAt(c, p).type) /\ Matched(c, p)) =>
            /\ Given(c, p).k = "nil" =>
                  /\ result[c].kind \in {"nil", "missing"}
                  /\ ~target[c][p].valid
                  /\ target[c][p].i = 0
            /\ Given(c, p) = VInt(42) =>
                  /\ result[c].kind \in {"nil", "missing"}
                  /\ target[c][p].valid
                  /\ target[c][p].i = 42

\* The text is an optional sign and decimal digits, with a fraction if
\* allowed.
NumericText(s, fraction) ==
    \E n \in 1..Len(s) :
        /\ \A j \in 1..n : IsDigit(s[j]) \/ (j = 1 /\ n > 1 /\ s[1] \in {Ord("+"), Ord("-")})
        /\ IsDigit(s[n])
        /\ \/ n = Len(s)
           \/ /\ fraction
              /\ s[n + 1] = Ord(".")
              /\ \A j \in (n + 2)..Len(s) : IsDigit(s[j])

\* The value cannot be converted to the type, by the rules for the built-in
\* conversion: a numeric field takes numeric text, integers and floats; any
\* other field takes a value of its own kind; null goes to no field that is
\* not nullable.  (Null for a nullable struct is C9's case.)
Inconvertible(v, t) ==
    /\ ~HasAnyHook(t)
    /\ IF v.k = "nil" THEN ~t.ptr /\ ~IsNullable(t)
       ELSE \/ /\ ScalarKind(t) \in {"int", "int8", "float"}
               /\ \/ v.k \in {"bool", "slice"}
                  \/ v.k = "string" /\ ~NumericText(v.s, ScalarKind(t) = "float")
            \/ ScalarKind(t) = "string" /\ v.k \in {"float", "bool", "slice"}
            \/ ScalarKind(t) = "bool" /\ v.k # "bool"
            \/ ScalarKind(t) = "struct"

ConversionErrors == {"null-non-pointer", "parse-int", "parse-float", "cannot-convert"}

\* C10 (as claimed): when a field was matched with a value that cannot be
\* converted to its type, UnmarshalParams returns a conversion error, never
\* nil or MissingFields.
C10_ConversionError ==
    \A c \in Procs :
        (/\ pc[c] = "done"
         /\ \E p \in Leaves(c) :
               Matched(c, p) /\ Inconvertible(Given(c, p), LeafAt(c, p).type)) =>
            result[c].kind \in ConversionErrors

(***************************************************************************)
(* C11: embedded structs                                                   *)
(***************************************************************************)

\* The record has fields of its own and exactly one embedded struct, which is
\* not excluded and has no embedded struct itself.
OneEmbedded(c) ==
    /\ Cardinality({i \in DOMAIN record[c] : record[c][i].anon}) = 1
    /\ \E i \in DOMAIN record[c] : ~record[c][i].anon
    /\ \A i \in DOMAIN record[c] :
          record[c][i].anon =>
              /\ ~Excluded(record[c][i])
              /\ \A j \in DOMAIN record[c][i].sub : ~record[c][i].sub[j].anon

\* C11: for a record with one embedded struct whose fields and own fields are
\* all bound, called with parameters that are exactly the keys of the fields
\* of both levels with compatible values, UnmarshalParams returns nil, every
\* field of both levels holds the value params has under its key, and the
\* count it compares with the number of parameters is the number of fields
\* matched at both levels.
C11_Embedding ==
    \A c \in Procs :
        (/\ pc[c] = "done"
         /\ OneEmbedded(c)
         /\ \A p \in Leaves(c) : Bound(c, p)
         /\ ExactCompatibleParams(c)) =>
            /\ result[c].kind = "nil"
            /\ \A p \in Leaves(c) :
                  /\ Holds(target[c][p], params[c][KeyOf(c, p)], LeafAt(c, p).type)
                  /\ target[c][p] # before[c][p]
            /\ ret[c].matchedFields = MatchedCount(c)
            /\ ret[c].matchedFields = Cardinality(Leaves(c))

\* C11 witness: a record with a field of its own and a field in an embedded
\* struct, under two different keys, was given both: nil was returned with a
\* count of 2 for 2 parameters, and both fields were set.
C11_Witness ==
    \E c \in Procs :
        /\ pc[c] = "done"
        /\ OneEmbedded(c)
        /\ ExactCompatibleParams(c)
        /\ Cardinality(DOMAIN params[c]) = 2
        /\ ret[c].matchedFields = 2
        /\ result[c].kind = "nil"
        /\ \E p, q \in Leaves(c) :
              /\ Len(p) = 1 /\ Len(q) = 2
              /\ target[c][p] # before[c][p]
              /\ target[c][q] # before[c][q]

(***************************************************************************)
(* C12: strings for integer fields                                         *)
(***************************************************************************)

\* A field of integer type: an integer kind, not behind a pointer, not inside
\* a nullable struct, without methods.
IsIntField(t) == ~t.ptr /\ t.kind \in {"int", "int8"} /\ ~HasAnyHook(t) /\ ~t.dflt.has

\* C12: an integer field matched with "17" holds 17 and its conversion gives
\* no error (nil is returned when the field and the parameter are the only
\* ones); matched with a string that is not a decimal integer, the call
\* returns the parse error and the field is as it was before the call.
C12_NumericCoercion ==
    \A c \in Procs : \A p \in Leaves(c) :
        (/\ pc[c] = "done"
         /\ IsIntField(LeafAt(c, p).type)
         /\ Matched(c, p)
         /\ Given(c, p).k = "string") =>
            IF NumericText(Given(c, p).s, FALSE)
            THEN /\ target[c][p].i \in IntValues(Given(c, p))
                 /\ Given(c, p).s = B(<<"1", "7">>) => target[c][p].i = 17
                 /\ result[c].kind \notin ConversionErrors
                 /\ (Leaves(c) = {p} /\ Cardinality(DOMAIN params[c]) = 1) =>
                       result[c].kind = "nil"
            ELSE /\ result[c].kind = "parse-int"
                 /\ target[c][p] = before[c][p]

\* C12 witness: an integer field that held 9 was given "abc": the parse error
\* was returned and the field still holds 9.
C12_Witness ==
    \E c \in Procs : \E p \in Leaves(c) :
        /\ pc[c] = "done"
        /\ IsIntField(LeafAt(c, p).type)
        /\ Matched(c, p)
        /\ Given(c, p) = VStr(B(<<"a", "b", "c">>))
        /\ before[c][p].i = 9
        /\ target[c][p].i = 9
        /\ result[c].kind = "parse-int"

\* C12 second witness: an integer field that held 9 was given "17": nil was
\* returned and the field holds 17.
C12_WitnessParsed ==
    \E c \in Procs : \E p \in Leaves(c) :
        /\ pc[c] = "done"
        /\ IsIntField(LeafAt(c, p).type)
        /\ Matched(c, p)
        /\ Given(c, p) = VStr(B(<<"1", "7">>))
        /\ before[c][p].i = 9
        /\ target[c][p].i = 17
        /\ result[c].kind = "nil"

(***************************************************************************)
(* C13: hooks and absent fields                                            *)
(***************************************************************************)

\* The calls of Receive, PreReceive and PostReceive made for a field.
HookEventsAt(c, p) ==
    EventsAt(c, "pre", p) \cup EventsAt(c, "recv", p) \cup EventsAt(c, "post", p)

\* C13 (as claimed): at every moment of a call, no Receive, PreReceive or
\* PostReceive has been called for a field whose key is not in params, an
\* absent optional field whose type has DefaultValue included.
C13_HooksOnlyWhenPresent ==
    \A c \in Procs : \A p \in Leaves(c) :
        ~Present(c, p) => HookEventsAt(c, p) = {}

(***************************************************************************)
(* C14: concurrent calls                                                   *)
(***************************************************************************)

\* A call made alone, as one sequential run over the fields in depth-first
\* declaration order that stops at the first error: st is the target, the
\* missing names, the count and the error so far.
aloneStep(st, path, r) ==
    [target |-> [st.target EXCEPT ![path] = r.cell],
     missing |-> IF r.missing THEN AddMissingField(st.missing, r.key) ELSE st.missing,
     matched |-> st.matched + r.matched,
     err |-> r.parseErr]

RECURSIVE aloneFrom(_, _, _, _, _, _)
aloneFrom(rec, paths, j, ps, dr, st) ==
    IF j > Len(paths) \/ st.err # NoError THEN st
    ELSE aloneFrom(rec, paths, j + 1, ps, dr,
                   aloneStep(st, paths[j],
                             fieldStep(FieldAt(rec, paths[j]), st.target[paths[j]], ps, dr)))

\* What call c leaves and returns when nothing else runs.
Alone(c) ==
    aloneFrom(record[c], FlatPaths(c), 1, params[c], DefaultRequired,
              [target |-> before[c], missing |-> << >>, matched |-> 0, err |-> NoError])

AloneResult(c) ==
    IF Alone(c).err # NoError THEN [kind |-> Alone(c).err, names |-> << >>]
    ELSE outcome(Alone(c).matched, Cardinality(DOMAIN params[c]), Alone(c).missing)

\* Each call that has returned has returned what it returns alone and left
\* its target as it leaves it alone.
AsIfAlone ==
    \A c \in Procs :
        pc[c] = "done" => result[c] = AloneResult(c) /\ target[c] = Alone(c).target

\* No step writes a parameter map or the record, and a step that writes the
\* target of a call is a step of that call's own loop: nothing of any other
\* call changes in it.
OwnWritesOnly ==
    /\ params' = params
    /\ record' = record
    /\ \A c \in Procs :
          target'[c] # target[c] =>
              /\ pc[c] = "loop"
              /\ stack'[c] # stack[c]
              /\ \A d \in Procs \ {c} :
                    /\ stack'[d] = stack[d] /\ pc'[d] = pc[d] /\ log'[d] = log[d]
                    /\ result'[d] = result[d] /\ missingErr'[d] = missingErr[d]

\* C14: two calls of UnmarshalParams on targets and parameter maps of their
\* own, interleaved in any way, DefaultRequired not being written: each call
\* returns what it returns alone and leaves its target as it leaves it alone,
\* and neither writes the other's target or parameter map.
C14_Independent == []AsIfAlone /\ [][OwnWritesOnly]_vars

\* C14 witness: both calls have returned, with different outcomes, each
\* having set a field of its own target.
C14_Witness ==
    /\ \A c \in Procs : pc[c] = "done" /\ target[c] # before[c]
    /\ result[1].kind = "nil"
    /\ result[2].kind = "missing"
    /\ params[1] # params[2]
    /\ record[1] # record[2]

(***************************************************************************)
(* C15: form values                                                        *)
(***************************************************************************)

\* the request is one ParseBody reads as a form
FormLike == request.mimeType \notin {"text/json", "application/json"}

\* every key of request.Form has its one value, or the sequence of its values
FormEntries(m) ==
    \A key \in DOMAIN request.form :
        /\ key \in DOMAIN m
        /\ m[key] = IF Len(request.form[key]) = 1
                    THEN PStr(request.form[key][1])
                    ELSE PStrings(request.form[key])

RECURSIVE CallsFrom(_, _, _)
\* the methods called and conversions made for the field at path p from entry
\* j of the log on, in order
CallsFrom(c, p, j) ==
    IF j > Len(log[c]) THEN << >>
    ELSE IF log[c][j].path = p /\ log[c][j].e \in {"pre", "recv", "conv", "post"}
         THEN <<log[c][j].e>> \o CallsFrom(c, p, j + 1)
         ELSE CallsFrom(c, p, j + 1)

CallsAt(c, p) == CallsFrom(c, p, 1)

\* The error the traversal ended with at the field at path p, "nil" when it
\* did not end there.
FieldErr(c, p) ==
    IF ret[c].err # NoError /\ log[c][Len(log[c])].path = p THEN result[c].kind ELSE "nil"

\* What Receive, or the built-in conversion, returns for the value of the
\* field at path p.
ConvErr(c, p) == receiveOrConvert(LeafAt(c, p).type, before[c][p], Given(c, p)).err

\* The calls made for a field of type t, the conversion of whose value
\* returns convErr, and the error of the field.
HookOrder(t, calls, convErr, fieldErr) ==
    IF HasHook(t, t.pre) /\ t.pre.err
    THEN calls = <<"pre">> /\ fieldErr = "pre-receive"
    ELSE /\ calls = (IF HasHook(t, t.pre) THEN <<"pre">> ELSE << >>)
                    \o <<IF HasHook(t, t.recv) THEN "recv" ELSE "conv">>
                    \o (IF HasHook(t, t.post) /\ convErr = "nil" THEN <<"post">> ELSE << >>)
         /\ fieldErr = IF convErr # "nil" THEN convErr
                       ELSE IF HasHook(t, t.post) /\ t.post.err THEN "post-receive"
                       ELSE "nil"

\* C16: for a field matched with a value that is not null, the calls are
\* PreReceive (if the type has it), then Receive or else the built-in
\* conversion, then PostReceive (if the type has it).  An error of PreReceive
\* is the field's error, and nothing else is called.  PostReceive is called
\* exactly when the conversion returned no error, and its error is the
\* field's error; an error of the conversion is the field's error, and
\* PostReceive is not called.  A string that is no number, given to an integer
\* type with PreReceive and PostReceive, is a conversion that fails.
C16_HookOrder ==
    \A c \in Procs :
        pc[c] = "done" =>
            \A p \in Leaves(c) :
                (Matched(c, p) /\ Given(c, p).k # "nil") =>
                    /\ HookOrder(LeafAt(c, p).type, CallsAt(c, p), ConvErr(c, p),
                                 FieldErr(c, p))
                    /\ (/\ LeafAt(c, p).type = THooked
                        /\ Given(c, p) = VStr(B(<<"a", "b", "c">>))) =>
                           CallsAt(c, p) = <<"pre", "conv">> /\ FieldErr(c, p) = "parse-int"

\* A field with PreReceive and PostReceive was given a string that is no
\* number: the conversion failed after PreReceive, and PostReceive was not
\* called.
C16_Witness ==
    /\ pc[1] = "done"
    /\ \E p \in Leaves(1) :
          /\ LeafAt(1, p).type = THooked
          /\ Matched(1, p)
          /\ Given(1, p) = VStr(B(<<"a", "b", "c">>))
          /\ CallsAt(1, p) = <<"pre", "conv">>
          /\ result[1].kind = "parse-int"

\* PostReceive was called after PreReceive and a conversion without error,
\* and its error is what UnmarshalParams returned.
C16_WitnessPost ==
    /\ pc[1] = "done"
    /\ \E p \in Leaves(1) :
          /\ Matched(1, p)
          /\ CallsAt(1, p) = <<"pre", "conv", "post">>
          /\ result[1].kind = "post-receive"

\* PreReceive returned an error before Receive: nothing else was called.
C16_WitnessPre ==
    /\ pc[1] = "done"
    /\ \E p \in Leaves(1) :
          /\ Matched(1, p)
          /\ HasHook(LeafAt(1, p).type, LeafAt(1, p).type.recv)
          /\ HasHook(LeafAt(1, p).type, LeafAt(1, p).type.post)
          /\ CallsAt(1, p) = <<"pre">>
          /\ result[1].kind = "pre-receive"

(***************************************************************************)
(* C17: a failure ends the traversal                                       *)
(***************************************************************************)

\* The value UnmarshalParams passed to setValue for the field at path p: the
\* parameter of a matched field, the default of a defaulted one.
Passed(c, p) == IF Matched(c, p) THEN Given(c, p) ELSE LeafAt(c, p).type.dfltVal

\* setValue was called for the field at path p.
Converted(c, p) ==
    Matched(c, p) \/ \E j \in EventsAt(c, "default", p) : Len(log[c]) > j

\* What that call of setValue returned: its error and the field it left.
Conversion(c, p) == setValue(LeafAt(c, p).type, before[c][p], Passed(c, p))

\* After the failure of the j-th field in depth-first declaration order,
\* UnmarshalParams returned its error, did nothing to the fields after it and
\* left the fields before it as their conversions had left them.
EndsAt(c, flat, j) ==
    /\ result[c].kind = Conversion(c, flat[j]).err
    /\ \A k \in DOMAIN flat :
          /\ k > j => /\ \A n \in DOMAIN log[c] : log[c][n].path # flat[k]
                      /\ target[c][flat[k]] = before[c][flat[k]]
          /\ (k < j /\ Converted(c, flat[k])) =>
                target[c][flat[k]] = Conversion(c, flat[k]).cell

\* C17 (as claimed): once the conversion or a hook of a field has failed, at
\* any depth, no field later in depth-first declaration order is assigned,
\* counted, listed as missing, given a default or has a method called;
\* UnmarshalParams returns exactly that error, and the fields assigned before
\* it keep their new values.
C17_FailureAborts ==
    \A c \in Procs :
        pc[c] = "done" =>
            \A j \in DOMAIN FlatPaths(c) :
                (/\ Converted(c, FlatPaths(c)[j])
                 /\ Conversion(c, FlatPaths(c)[j]).err # "nil") =>
                    EndsAt(c, FlatPaths(c), j)

\* C17 for the fields that have a parameter: once the conversion or a hook of
\* a matched field has failed, the traversal ends as claimed.
C17_ParseErrorAborts ==
    \A c \in Procs :
        pc[c] = "done" =>
            \A j \in DOMAIN FlatPaths(c) :
                (/\ Matched(c, FlatPaths(c)[j])
                 /\ Conversion(c, FlatPaths(c)[j]).err # "nil") =>
                    EndsAt(c, FlatPaths(c), j)

\* The field of an embedded struct failed, and a field with a parameter of
\* its own follows the embedded struct.
C17_Witness ==
    /\ pc[1] = "done"
    /\ result[1].kind = "parse-int"
    /\ Len(FlatPaths(1)) = 2
    /\ Len(FlatPaths(1)[1]) > 1
    /\ Matched(1, FlatPaths(1)[1])
    /\ Conversion(1, FlatPaths(1)[1]).err = "parse-int"
    /\ Present(1, FlatPaths(1)[2])
    /\ KeyOf(1, FlatPaths(1)[2]) # KeyOf(1, FlatPaths(1)[1])

\* A field failed after another field had been assigned.
C17_WitnessAfter ==
    /\ pc[1] = "done"
    /\ result[1].kind = "parse-int"
    /\ Len(FlatPaths(1)) = 2
    /\ Matched(1, FlatPaths(1)[1])
    /\ target[1][FlatPaths(1)[1]] # before[1][FlatPaths(1)[1]]
    /\ Matched(1, FlatPaths(1)[2])
    /\ Conversion(1, FlatPaths(1)[2]).err = "parse-int"

(***************************************************************************)
(* C18: default values                                                     *)
(***************************************************************************)

C18_WitnessPresent ==
    /\ pc[1] = "done"
    /\ result[1].kind = "nil"
    /\ \E p \in Leaves(1) :
          /\ LeafAt(1, p).type = TLimit
          /\ ~IsRequired(1, p)
          /\ Matched(1, p)
          /\ EventsAt(1, "default", p) = {}
          /\ target[1][p].i = 42

(***************************************************************************)
(* C19: the cache of ParseBody                                             *)
(***************************************************************************)

\* Call j was made after a call of ParseBody that returned without error.
AfterParsed(i, j) == i < j /\ out[i].fn = "ParseBody" /\ out[i].err = "nil"

\* A call that returned the error of reading or of decoding the body left
\* ctx.Data() as it was, and a call that put "params" in ctx.Data() had read
\* and parsed the body.
StoredByParse ==
    \A j \in DOMAIN out :
        /\ out[j].err \in {"read", "decode"} => out[j].has = out[j].had
        /\ (out[j].has /\ ~out[j].had) =>
              out[j].read = 1 /\ out[j].err \notin {"read", "decode"}

\* C19 as stated: after a call of ParseBody on a context has returned without
\* error, every later call of ParseBody or ParseParams on the context returns
\* the value that call returned, without error and without reading the body;
\* a call that fails stores nothing.
C19_CachedForAll ==
    /\ \A i, j \in DOMAIN out :
          AfterParsed(i, j) =>
              out[j].val = out[i].val /\ out[j].err = "nil" /\ out[j].read = 0
    /\ StoredByParse

\* C19, amended: after a call of ParseBody on a context has returned without
\* error, no later call reads the body; every later call of ParseBody returns
\* the value that call returned, and so does every later call of ParseParams
\* when that value is an objx.Map or nil; for any other value ParseParams
\* returns nil and the error "Cannot use non-map body as params".  A call
\* that fails stores nothing.
C19_Cached ==
    /\ \A i, j \in DOMAIN out :
          AfterParsed(i, j) =>
              /\ out[j].read = 0
              /\ IF out[j].fn = "ParseBody" \/ out[i].val.k \in {"map", "nil"}
                 THEN out[j].val = out[i].val /\ out[j].err = "nil"
                 ELSE out[j].val = PNil /\ out[j].err = "non-map"
    /\ StoredByParse

\* ParseBody has parsed a JSON object; ParseParams and ParseBody, called after
\* it, have returned the same map without reading the body.
C19_Witness ==
    /\ Len(out) = 3
    /\ request.mimeType = "application/json"
    /\ out[1].fn = "ParseBody"
    /\ out[1].err = "nil"
    /\ out[1].read = 1
    /\ out[1].val = PObjx(KeyA :> PObjx(KeyB :> PStr(B(<<"x">>))))
    /\ out[2].fn = "ParseParams"
    /\ out[2].val = out[1].val
    /\ out[3].fn = "ParseBody"
    /\ out[3].val = out[1].val
    /\ reads = 1

\* Two calls have failed to decode the body, and "params" is not in
\* ctx.Data().
C19_WitnessFailed ==
    /\ Len(out) = 2
    /\ out[1].err = "decode"
    /\ out[2].err = "decode"
    /\ reads = 2
    /\ ~data.has

\* ParseParams has found a JSON array in the cache.
C19_WitnessNonMap ==
    /\ Len(out) = 2
    /\ out[1].fn = "ParseBody"
    /\ out[1].val.k = "array"
    /\ out[2].fn = "ParseParams"
    /\ out[2].err = "non-map"
    /\ reads = 1

====
